---- MODULE Spec2Model ----
(***************************************************************************)
(* State-machine model of the rlstats client (src/src/lib.rs): client      *)
(* construction, the nine endpoint methods, and the request dispatcher     *)
(* with its status check and two-shape JSON decode.                        *)
(***************************************************************************)
EXTENDS Integers, Sequences, FiniteSets, TLC

(***************************************************************************)
(* JSON text.  A response body is represented by the syntax tree of its    *)
(* text; text that is not JSON at all is a JBad leaf naming the syntax     *)
(* error serde_json reports for it.  Numbers carry the narrowest class    *)
(* they fit in (i32, i64 beyond i32, f64).                                 *)
(***************************************************************************)
JNull == [tag |-> "null"]
JNum(n) == [tag |-> "num", class |-> "i32", n |-> n]
JWide(n) == [tag |-> "num", class |-> "i64", n |-> n]
JFloat(n) == [tag |-> "num", class |-> "f64", n |-> n]
JStr(s) == [tag |-> "str", s |-> s]
JArr(items) == [tag |-> "arr", items |-> items]
JObj(members) == [tag |-> "obj", members |-> members]
JBad(why) == [tag |-> "bad", why |-> why]

(***************************************************************************)
(* Rust types that are deserialized, as schemas.                           *)
(***************************************************************************)
TI32 == [k |-> "i32"]
TI64 == [k |-> "i64"]
TString == [k |-> "string"]
TOption(t) == [k |-> "option", of |-> t]
TVec(t) == [k |-> "vec", of |-> t]
TBTreeMap(t) == [k |-> "map", of |-> t]
TStruct(name, fields) == [k |-> "struct", name |-> name, fields |-> fields]
Fld(field, rename, ty) == [field |-> field, rename |-> rename, ty |-> ty]

ResponseCode ==
  TStruct("ResponseCode", << Fld("code", "code", TI32),
                             Fld("message", "message", TString) >>)
Platform ==
  TStruct("Platform", << Fld("id", "id", TI32), Fld("name", "name", TString) >>)
Season ==
  TStruct("Season", << Fld("season_id", "seasonId", TI64),
                       Fld("started_on", "startedOn", TI64),
                       Fld("ended_on", "endedOn", TOption(TI64)) >>)
Population ==
  TStruct("Population", << Fld("players", "players", TI32),
                           Fld("updated_at", "updatedAt", TI64) >>)
Playlist ==
  TStruct("Playlist", << Fld("id", "id", TI32),
                         Fld("platform_id", "platformId", TI32),
                         Fld("name", "name", TString),
                         Fld("population", "population", Population) >>)
Tier ==
  TStruct("Tier", << Fld("id", "tierId", TI32), Fld("name", "tierName", TString) >>)
Stats ==
  TStruct("Stats", << Fld("wins", "wins", TI32), Fld("goals", "goals", TI32),
                      Fld("mvps", "mvps", TI32), Fld("saves", "saves", TI32),
                      Fld("shots", "shots", TI32), Fld("assists", "assists", TI32) >>)
RankedData ==
  TStruct("RankedData", << Fld("rank_points", "rankPoints", TOption(TI32)),
                           Fld("matches_played", "matchesPlayed", TOption(TI32)),
                           Fld("tier", "tier", TOption(TI32)),
                           Fld("division", "division", TOption(TI32)) >>)
Player ==
  TStruct("Player", << Fld("unique_id", "uniqueId", TString),
                       Fld("display_name", "displayName", TString),
                       Fld("platform", "platform", Platform),
                       Fld("avatar", "avatar", TOption(TString)),
                       Fld("profile_url", "profileUrl", TString),
                       Fld("signature_url", "signatureUrl", TString),
                       Fld("stats", "stats", Stats),
                       Fld("ranked_seasons", "rankedSeasons", TBTreeMap(TBTreeMap(RankedData))),
                       Fld("last_requested", "lastRequested", TI64),
                       Fld("created_at", "createdAt", TI64),
                       Fld("updated_at", "updatedAt", TI64),
                       Fld("next_update_at", "nextUpdateAt", TI64) >>)
SearchResponse ==
  TStruct("SearchResponse", << Fld("page", "page", TOption(TI32)),
                               Fld("results", "results", TI32),
                               Fld("total_results", "totalResults", TI32),
                               Fld("max_results_per_page", "maxResultsPerPage", TI32),
                               Fld("data", "data", TVec(Player)) >>)

(***************************************************************************)
(* serde / serde_json deserialization, as the derived impls perform it.    *)
(***************************************************************************)
Ok(v) == [ok |-> TRUE, val |-> v]
Err(e) == [ok |-> FALSE, err |-> e]
None == [some |-> FALSE]
Some(v) == [some |-> TRUE, v |-> v]
DeError(kind, what) == [kind |-> kind, what |-> what]

Unexpected(v) ==
  CASE v.tag = "null" -> "null"
    [] v.tag = "num" -> IF v.class = "f64" THEN "floating point" ELSE "integer"
    [] v.tag = "str" -> "string"
    [] v.tag = "arr" -> "sequence"
    [] v.tag = "obj" -> "map"

FieldIndex(fields, key) ==
  LET hits == {i \in 1..Len(fields) : fields[i].rename = key}
  IN IF hits = {} THEN 0 ELSE CHOOSE i \in hits : TRUE

FieldNames(fields) == {fields[i].field : i \in 1..Len(fields)}

RECURSIVE Deserialize(_, _)
RECURSIVE VisitVec(_, _, _, _)
RECURSIVE VisitBTreeMap(_, _, _, _)
RECURSIVE VisitStructMap(_, _, _, _)
RECURSIVE VisitStructSeq(_, _, _, _)

\* Vec<T>: every element in order, stopping at the first element error.
VisitVec(of, items, i, acc) ==
  IF i > Len(items) THEN Ok(acc)
  ELSE LET r == Deserialize(of, items[i])
       IN IF r.ok THEN VisitVec(of, items, i + 1, Append(acc, r.val)) ELSE r

\* BTreeMap<String, T>: every member in order, a repeated key keeps the last.
VisitBTreeMap(of, members, i, acc) ==
  IF i > Len(members) THEN Ok(acc)
  ELSE LET r == Deserialize(of, members[i][2])
       IN IF r.ok
          THEN VisitBTreeMap(of, members, i + 1,
                 (members[i][1] :> r.val) @@ acc)
          ELSE r

\* A derived struct read from a JSON object: unknown keys are skipped, a
\* repeated key is an error, an absent Option field is None, any other
\* absent field is an error.
VisitStructMap(ty, members, i, acc) ==
  IF i > Len(members)
  THEN LET missing == {j \in 1..Len(ty.fields) :
                         /\ ty.fields[j].field \notin DOMAIN acc
                         /\ ty.fields[j].ty.k # "option"}
       IN IF missing # {}
          THEN Err(DeError("missing field",
                 ty.fields[CHOOSE j \in missing : \A m \in missing : j <= m].rename))
          ELSE Ok([n \in FieldNames(ty.fields) |->
                     IF n \in DOMAIN acc THEN acc[n] ELSE None])
  ELSE LET idx == FieldIndex(ty.fields, members[i][1])
       IN IF idx = 0 THEN VisitStructMap(ty, members, i + 1, acc)
          ELSE IF ty.fields[idx].field \in DOMAIN acc
          THEN Err(DeError("duplicate field", ty.fields[idx].rename))
          ELSE LET r == Deserialize(ty.fields[idx].ty, members[i][2])
               IN IF r.ok
                  THEN VisitStructMap(ty, members, i + 1,
                         (ty.fields[idx].field :> r.val) @@ acc)
                  ELSE r

\* A derived struct read from a JSON array: the fields positionally, all
\* of them, and nothing after the last.
VisitStructSeq(ty, items, i, acc) ==
  IF i > Len(ty.fields)
  THEN IF Len(items) > Len(ty.fields)
       THEN Err(DeError("trailing characters", ty.name))
       ELSE Ok(acc)
  ELSE IF i > Len(items)
  THEN Err(DeError("invalid length", ty.name))
  ELSE LET r == Deserialize(ty.fields[i].ty, items[i])
       IN IF r.ok
          THEN VisitStructSeq(ty, items, i + 1, (ty.fields[i].field :> r.val) @@ acc)
          ELSE r

Deserialize(ty, v) ==
  CASE ty.k = "i32" ->
         IF v.tag = "num" /\ v.class = "i32" THEN Ok(v.n)
         ELSE IF v.tag = "num" /\ v.class = "i64"
         THEN Err(DeError("invalid value", "i32"))
         ELSE Err(DeError("invalid type: " \o Unexpected(v), "i32"))
    [] ty.k = "i64" ->
         IF v.tag = "num" /\ v.class \in {"i32", "i64"} THEN Ok(v.n)
         ELSE Err(DeError("invalid type: " \o Unexpected(v), "i64"))
    [] ty.k = "string" ->
         IF v.tag = "str" THEN Ok(v.s)
         ELSE Err(DeError("invalid type: " \o Unexpected(v), "a string"))
    [] ty.k = "option" ->
         IF v.tag = "null" THEN Ok(None)
         ELSE LET r == Deserialize(ty.of, v)
              IN IF r.ok THEN Ok(Some(r.val)) ELSE r
    [] ty.k = "vec" ->
         IF v.tag = "arr" THEN VisitVec(ty.of, v.items, 1, <<>>)
         ELSE Err(DeError("invalid type: " \o Unexpected(v), "a sequence"))
    [] ty.k = "map" ->
         IF v.tag = "obj" THEN VisitBTreeMap(ty.of, v.members, 1, <<>>)
         ELSE Err(DeError("invalid type: " \o Unexpected(v), "a map"))
    [] ty.k = "struct" ->
         IF v.tag = "obj" THEN VisitStructMap(ty, v.members, 1, <<>>)
         ELSE IF v.tag = "arr" THEN VisitStructSeq(ty, v.items, 1, <<>>)
         ELSE Err(DeError("invalid type: " \o Unexpected(v), "struct " \o ty.name))

\* serde_json::from_str::<ty>(content)
from_str(ty, content) ==
  IF content.tag = "bad" THEN Err(DeError(content.why, ""))
  ELSE Deserialize(ty, content)

(***************************************************************************)
(* Response bodies the service is made to answer with.                     *)
(***************************************************************************)
PlatformJson(id, name) == JObj(<< <<"id", JNum(id)>>, <<"name", JStr(name)>> >>)
PlatformsBody == JArr(<< PlatformJson(1, "Steam"), PlatformJson(2, "PS4") >>)
EmptyArrayBody == JArr(<< >>)
SeasonsBody ==
  JArr(<< JObj(<< <<"seasonId", JNum(1)>>, <<"startedOn", JWide(1)>>,
                  <<"endedOn", JWide(2)>> >>),
          JObj(<< <<"seasonId", JNum(2)>>, <<"startedOn", JWide(2)>>,
                  <<"endedOn", JNull>> >>),
          JObj(<< <<"seasonId", JNum(3)>>, <<"startedOn", JWide(3)>> >>) >>)
PlaylistsBody ==
  JArr(<< JObj(<< <<"id", JNum(10)>>, <<"platformId", JNum(1)>>,
                  <<"name", JStr("Ranked Duels")>>,
                  <<"population", JObj(<< <<"players", JNum(7)>>,
                                          <<"updatedAt", JWide(5)>> >>)>> >>) >>)
TiersBody ==
  JArr(<< JObj(<< <<"tierId", JNum(0)>>, <<"tierName", JStr("Unranked")>> >>),
          JObj(<< <<"tierId", JNum(1)>>, <<"tierName", JStr("Bronze I")>> >>) >>)
StatsJson ==
  JObj(<< <<"wins", JNum(1)>>, <<"goals", JNum(2)>>, <<"mvps", JNum(3)>>,
          <<"saves", JNum(4)>>, <<"shots", JNum(5)>>, <<"assists", JNum(6)>> >>)
RankedSeasonsJson ==
  JObj(<< <<"6", JObj(<< <<"10", JObj(<< <<"rankPoints", JNum(900)>>,
                                         <<"tier", JNull>> >>)>> >>)>> >>)
PlayerMembers(uid) ==
  << <<"uniqueId", JStr(uid)>>, <<"displayName", JStr("Kronovi")>>,
     <<"platform", PlatformJson(1, "Steam")>>, <<"avatar", JNull>>,
     <<"profileUrl", JStr("p")>>, <<"signatureUrl", JStr("s")>>,
     <<"stats", StatsJson>>, <<"rankedSeasons", RankedSeasonsJson>>,
     <<"lastRequested", JWide(1)>>, <<"createdAt", JWide(2)>>,
     <<"updatedAt", JWide(3)>>, <<"nextUpdateAt", JWide(4)>> >>
PlayerBody == JObj(PlayerMembers("u1"))
\* a player record that also has the two members of the error envelope
PlayerWithCodeBody ==
  JObj(<< <<"code", JNum(200)>>, <<"message", JStr("OK")>> >> \o PlayerMembers("u1"))
PlayersBody == JArr(<< JObj(PlayerMembers("u1")), JObj(PlayerMembers("u2")) >>)
SearchBody ==
  JObj(<< <<"results", JNum(1)>>, <<"totalResults", JNum(1)>>,
          <<"maxResultsPerPage", JNum(20)>>,
          <<"data", JArr(<< JObj(PlayerMembers("u1")) >>)>>,
          <<"code", JNum(200)>>, <<"message", JStr("OK")>> >>)
NotFoundBody == JObj(<< <<"code", JNum(404)>>, <<"message", JStr("Player not found")>> >>)
NotFoundSeqBody == JArr(<< JNum(404), JStr("Player not found") >>)
WideCodeBody == JObj(<< <<"code", JWide(5)>>, <<"message", JStr("big")>> >>)
FloatCodeBody == JObj(<< <<"code", JFloat(404)>>, <<"message", JStr("half")>> >>)
UnexpectedBody == JObj(<< <<"unexpected", JStr("shape")>> >>)
EmptyBody == JBad("EOF while parsing a value")
HtmlBody == JBad("expected value")

Bodies ==
  { PlatformsBody, EmptyArrayBody, SeasonsBody, PlaylistsBody, TiersBody,
    PlayerBody, PlayerWithCodeBody, PlayersBody, SearchBody, NotFoundBody,
    NotFoundSeqBody, WideCodeBody, FloatCodeBody, UnexpectedBody, EmptyBody, HtmlBody }

(***************************************************************************)
(* Bounds of the model.                                                    *)
(***************************************************************************)
MaxCalls == 2       \* endpoint calls one caller makes, one after another
NumCallers == 2     \* callers sharing one client concurrently
ConcCalls == 1      \* endpoint calls each concurrent caller makes
MaxBatch == 11      \* longest batch passed to batch_players

(***************************************************************************)
(* Program constants and inputs.                                           *)
(***************************************************************************)
API_URL == "https://api.rocketleaguestats.com/v1"
\* env!("CARGO_PKG_NAME") and env!("CARGO_PKG_VERSION"), fixed at build time
CARGO_PKG_NAME == "rlstats"
CARGO_PKG_VERSION == "0.1.0"
TooManyRequests == 429

\* api keys, as byte strings: "abc123", and "a\nb" with a line feed in it
KeyAbc123 == << 97, 98, 99, 49, 50, 51 >>
KeyWithLineFeed == << 97, 10, 98 >>
Credentials == { KeyAbc123, KeyWithLineFeed }

UniqueIds == << "76561198033338223", "Kronovi z" >>
PlatformIds == << 1, 2, -3 >>
Pages == { 0, 7 }
PlaylistIds == { 10, -1 }
StatTypes == { "goals", "a&b" }
DisplayNames == { "Kronovi", "x y" }
BatchPlayer(n) ==
  [id |-> UniqueIds[(n % 2) + 1], platform_id |-> PlatformIds[(n % 3) + 1]]
BatchOf(n) == [i \in 1..n |-> BatchPlayer(i)]
Batches == { BatchOf(n) : n \in 0..MaxBatch }

Statuses == { 200, 404, TooManyRequests, 500 }
\* what reading the body gives: its text, or an I/O error
IoError == [tag |-> "io error"]
Responses == [status : Statuses, body : Bodies \cup {IoError}]
ConcResponses ==
  { [status |-> 200, body |-> PlayerBody], [status |-> 404, body |-> NotFoundBody],
    [status |-> TooManyRequests, body |-> EmptyBody],
    [status |-> 200, body |-> IoError] }
TransportCauses == { "connect", "timeout" }

Nil == [nil |-> TRUE]

VARIABLES
  rl,       \* the result of RlStats::new, Nil before it is called
  call,     \* per caller: the endpoint call it is in
  ncalls,   \* per caller: endpoint calls started
  wire      \* the headers of every request sent, in order

vars == << rl, call, ncalls, wire >>

(***************************************************************************)
(* enum Error and its conversions                                          *)
(***************************************************************************)
RateLimited == [kind |-> "RateLimited"]
ErrorResponseCode(r) == [kind |-> "ResponseCode", rc |-> r]
ReqwestError(e) == [kind |-> "ReqwestError", inner |-> e]
SerdeJson(e) == [kind |-> "SerdeJson", cause |-> e]
From(err) == ReqwestError(err)

(***************************************************************************)
(* RlStats::new                                                            *)
(***************************************************************************)
\* Client::new(): a transport with no default headers, or a failure
ClientNew(backend_ok) ==
  IF backend_ok THEN Ok([default_headers |-> << >>]) ELSE Err("tls backend")

new(api_key, backend_ok) ==
  /\ rl = Nil
  /\ rl' = LET c == ClientNew(backend_ok)
           IN IF c.ok THEN Ok([client |-> c.val, api_key |-> api_key])
              ELSE Err(From(c.err))
  /\ UNCHANGED << call, ncalls, wire >>

(***************************************************************************)
(* RlStats::request, up to send()                                          *)
(***************************************************************************)
Idle == [pc |-> "idle"]

\* serde_json serialization of the request payload j
SerializeUnit == JNull
SerializeBatchPlayer(b) ==
  JObj(<< <<"uniqueId", JStr(b.id)>>, <<"platformId", JNum(b.platform_id)>> >>)
SerializeTruncated(players) ==
  JArr([i \in 1..(IF Len(players) > 10 THEN 10 ELSE Len(players)) |->
          SerializeBatchPlayer(players[i])])
SerializeVec(players) ==
  JArr([i \in 1..Len(players) |-> SerializeBatchPlayer(players[i])])

user_agent == CARGO_PKG_NAME \o " (v " \o CARGO_PKG_VERSION \o ")"

\* the three .header(...) calls on the request builder
BuilderHeaders(self) ==
  [Authorization |-> self.api_key, Accept |-> "application/json",
   UserAgent |-> user_agent]

\* what goes out: the client's default headers, overridden by the builder's
BuildRequest(self, endpoint, method, json) ==
  [method |-> method, url |-> API_URL \o endpoint,
   headers |-> BuilderHeaders(self) @@ self.client.default_headers,
   builder_headers |-> BuilderHeaders(self),
   json |-> json]

request(c, op, args, endpoint, method, json, T) ==
  /\ rl # Nil /\ rl.ok
  /\ call[c].pc \in {"idle", "returned"}
  /\ ncalls' = [ncalls EXCEPT ![c] = @ + 1]
  /\ LET req == BuildRequest(rl.val, endpoint, method, json)
     IN /\ call' = [call EXCEPT ![c] =
                      [pc |-> "sent", op |-> op, args |-> args, T |-> T,
                       request |-> req, sends |-> 1, sent |-> Nil,
                       status_checked |-> FALSE, body_read |-> FALSE,
                       attempts |-> << >>, content |-> Nil, result |-> Nil,
                       got |-> Nil]]
        /\ wire' = Append(wire, req.headers)
  /\ UNCHANGED rl

get(c, op, args, endpoint, T) ==
  request(c, op, args, endpoint, "GET", SerializeUnit, T)

(***************************************************************************)
(* The endpoint methods                                                    *)
(***************************************************************************)
get_platforms(c) ==
  get(c, "get_platforms", << >>, "/data/platforms", TVec(Platform))
get_seasons(c) ==
  get(c, "get_seasons", << >>, "/data/seasons", TVec(Season))
get_playlists(c) ==
  get(c, "get_playlists", << >>, "/data/playlists", TVec(Playlist))
get_tiers(c) ==
  get(c, "get_tiers", << >>, "/data/tiers", TVec(Tier))
get_player(c, unique_id, platform_id) ==
  get(c, "get_player", << unique_id, platform_id >>,
      "/player?unique_id=" \o unique_id \o "&platform_id=" \o ToString(platform_id),
      Player)
search_players(c, display_name, page) ==
  get(c, "search_players", << display_name, page >>,
      "/search/players?display_name=" \o display_name \o "&page=" \o ToString(page),
      SearchResponse)
batch_players(c, players) ==
  request(c, "batch_players", << players >>, "/player/batch", "POST",
          SerializeVec(players), TVec(Player))
get_ranked_leaderboard(c, playlist_id) ==
  get(c, "get_ranked_leaderboard", << playlist_id >>,
      "/leaderboard/ranked?playlist_id=" \o ToString(playlist_id), TVec(Player))
get_stat_leaderboard(c, ty) ==
  get(c, "get_stat_leaderboard", << ty >>, "/leaderboard/stat?type=" \o ty,
      TVec(Player))

(***************************************************************************)
(* RlStats::request, from send() on                                        *)
(***************************************************************************)
\* send() failed: .map_err(Error::ReqwestError), and_then is skipped
AfterSendErrRetry(cl, cause) == [cl EXCEPT !.sends = @ + 1]
AfterSendErr(cl, cause) ==
  [cl EXCEPT !.pc = "done", !.sent = Err(cause),
             !.result = Err(ReqwestError(cause))]

send_err(c, cause) ==
  /\ call[c].pc = "sent"
  /\ call' = [call EXCEPT ![c] = AfterSendErr(@, cause)]
  /\ UNCHANGED << rl, ncalls, wire >>

\* the match on resp.status()
IsTooManyRequestsAnyError(status) == status >= 400
IsTooManyRequests(status) == status = TooManyRequests

\* the two from_str attempts on the content that was read
DecodeEnvelopeFirst(T, content) ==
  LET second == from_str(ResponseCode, content)
      first == from_str(T, content)
  IN IF second.ok THEN Err(ErrorResponseCode(second.val))
     ELSE IF first.ok THEN Ok(first.val)
     ELSE Err(SerdeJson(second.err))
DecodeDroppingMessage(T, content) ==
  LET first == from_str(T, content)
      second == from_str(ResponseCode, content)
  IN IF first.ok THEN Ok(first.val)
     ELSE IF second.ok
     THEN Err(ErrorResponseCode([code |-> second.val.code, message |-> ""]))
     ELSE Err(SerdeJson(second.err))
DecodeKeepingFirstError(T, content) ==
  LET first == from_str(T, content)
      second == from_str(ResponseCode, content)
  IN IF first.ok THEN Ok(first.val)
     ELSE IF second.ok THEN Err(ErrorResponseCode(second.val))
     ELSE Err(SerdeJson(first.err))
Decode(T, content) ==
  LET first == from_str(T, content)
      second == from_str(ResponseCode, content)
  IN IF first.ok THEN Ok(first.val)
     ELSE IF second.ok THEN Err(ErrorResponseCode(second.val))
     ELSE Err(SerdeJson(second.err))

\* which from_str calls run on the content, in order
Attempts(T, content) ==
  IF from_str(T, content).ok THEN << "T" >> ELSE << "T", "ResponseCode" >>

\* send() returned a response: its status line has arrived
send_ok(c, resp) ==
  /\ call[c].pc = "sent"
  /\ call' = [call EXCEPT ![c] =
       IF IsTooManyRequests(resp.status)
       THEN [@ EXCEPT !.pc = "done", !.sent = Ok(resp), !.status_checked = TRUE,
                      !.result = Err(RateLimited)]
       ELSE [@ EXCEPT !.pc = "reading", !.sent = Ok(resp),
                      !.status_checked = TRUE]]
  /\ UNCHANGED << rl, ncalls, wire >>

\* whose response a call reads its body from
BodySourceShared(c) == CHOOSE d \in DOMAIN call : call[d].pc = "reading"
BodySource(c) == c

\* resp.read_to_string(&mut content) succeeded; the content is decoded
read_to_string(c) ==
  /\ call[c].pc = "reading"
  /\ call[BodySource(c)].sent.val.body # IoError
  /\ LET content == call[BodySource(c)].sent.val.body
     IN call' = [call EXCEPT ![c] =
          [@ EXCEPT !.pc = "done", !.body_read = TRUE, !.content = content,
                    !.attempts = Attempts(call[c].T, content),
                    !.result = Decode(call[c].T, content)]]
  /\ UNCHANGED << rl, ncalls, wire >>

\* resp.read_to_string(&mut content) failed: unwrap() panics
read_to_string_unwrap_panic(c) ==
  /\ call[c].pc = "reading"
  /\ call[BodySource(c)].sent.val.body = IoError
  /\ call' = [call EXCEPT ![c].pc = "panicked"]
  /\ UNCHANGED << rl, ncalls, wire >>

\* the endpoint method hands the dispatcher's result to its caller
return(c) ==
  /\ call[c].pc = "done"
  /\ call' = [call EXCEPT ![c].pc = "returned", ![c].got = call[c].result]
  /\ UNCHANGED << rl, ncalls, wire >>

(***************************************************************************)
(* Specifications                                                          *)
(***************************************************************************)
Range(s) == {s[i] : i \in 1..Len(s)}

\* a caller makes its calls one after another, at most limit of them
MayCall(c, limit) == ncalls[c] < limit

\* Spec: one caller, calls one after another, every response
Init ==
  /\ rl = Nil
  /\ call = [c \in {1} |-> Idle]
  /\ ncalls = [c \in {1} |-> 0]
  /\ wire = << >>

Next ==
  \/ \E k \in Credentials, b \in BOOLEAN : new(k, b)
  \/ MayCall(1, MaxCalls) /\ get_platforms(1)
  \/ MayCall(1, MaxCalls) /\ get_seasons(1)
  \/ MayCall(1, MaxCalls) /\ get_playlists(1)
  \/ MayCall(1, MaxCalls) /\ get_tiers(1)
  \/ \E u \in Range(UniqueIds), p \in Range(PlatformIds) :
       MayCall(1, MaxCalls) /\ get_player(1, u, p)
  \/ \E d \in DisplayNames, p \in Pages :
       MayCall(1, MaxCalls) /\ search_players(1, d, p)
  \/ \E b \in Batches : MayCall(1, MaxCalls) /\ batch_players(1, b)
  \/ \E p \in PlaylistIds : MayCall(1, MaxCalls) /\ get_ranked_leaderboard(1, p)
  \/ \E t \in StatTypes : MayCall(1, MaxCalls) /\ get_stat_leaderboard(1, t)
  \/ \E e \in TransportCauses : send_err(1, e)
  \/ \E r \in Responses : send_ok(1, r)
  \/ read_to_string(1)
  \/ read_to_string_unwrap_panic(1)
  \/ return(1)

Spec == Init /\ [][Next]_vars

\* SpecConc: several callers on one client, their calls interleaved
Callers == 1..NumCallers

InitConc ==
  /\ rl = Nil
  /\ call = [c \in Callers |-> Idle]
  /\ ncalls = [c \in Callers |-> 0]
  /\ wire = << >>

NextConc ==
  \/ \E b \in BOOLEAN : new(KeyAbc123, b)
  \/ \E c \in Callers :
       MayCall(c, ConcCalls) /\ get_player(c, UniqueIds[1], PlatformIds[1])
  \/ \E c \in Callers : MayCall(c, ConcCalls) /\ batch_players(c, BatchOf(2))
  \/ \E c \in Callers : send_err(c, "connect")
  \/ \E c \in Callers, r \in ConcResponses : send_ok(c, r)
  \/ \E c \in Callers : read_to_string(c)
  \/ \E c \in Callers : read_to_string_unwrap_panic(c)
  \/ \E c \in Callers : return(c)

SpecConc == InitConc /\ [][NextConc]_vars

(***************************************************************************)
(* Properties                                                              *)
(***************************************************************************)
Finished(c) == call[c].pc \in {"done", "returned"}
GotResponse(c) == call[c].pc # "idle" /\ call[c].sent # Nil /\ call[c].sent.ok
Status(c) == call[c].sent.val.status
Body(c) == call[c].sent.val.body

\* the value of the member named key of a JSON object
MemberValue(members, key) ==
  members[CHOOSE i \in 1..Len(members) : members[i][1] = key][2]
\* the code and the message written in an error envelope body
EnvelopeCode(b) ==
  IF b.tag = "obj" THEN MemberValue(b.members, "code").n ELSE b.items[1].n
EnvelopeMessage(b) ==
  IF b.tag = "obj" THEN MemberValue(b.members, "message").s ELSE b.items[2].s

\* C1 as stated: for every status code and every response body that decodes
\* as T, the dispatcher returns Ok with the value decoded from the body.
C1_SuccessForEveryStatus ==
  \A c \in DOMAIN call :
    (/\ Finished(c) /\ GotResponse(c) /\ Body(c) # IoError
     /\ from_str(call[c].T, Body(c)).ok)
    => call[c].result = Ok(from_str(call[c].T, Body(c)).val)

\* C1 amended: for every status code other than 429 and every response body
\* that decodes as T, the dispatcher returns Ok with the value decoded from
\* the body, also when the body decodes as the error envelope too.
C1_SuccessUnlessTooManyRequests ==
  \A c \in DOMAIN call :
    (/\ Finished(c) /\ GotResponse(c) /\ Body(c) # IoError
     /\ Status(c) # TooManyRequests
     /\ from_str(call[c].T, Body(c)).ok)
    => /\ call[c].result = Ok(from_str(call[c].T, Body(c)).val)
       /\ call[c].attempts = << "T" >>

\* a 404 response to get_player whose body is a player record that is also
\* a well-formed error envelope: the player is returned
C1_Witness ==
  \E c \in DOMAIN call :
    /\ Finished(c) /\ GotResponse(c) /\ Status(c) = 404
    /\ call[c].op = "get_player" /\ Body(c) = PlayerWithCodeBody
    /\ from_str(ResponseCode, Body(c)).ok
    /\ call[c].result.ok /\ call[c].result.val.unique_id = "u1"
    /\ call[c].result.val.platform = [id |-> 1, name |-> "Steam"]

C4_RateLimitedIffTooManyRequests ==
  \A c \in DOMAIN call :
    /\ (GotResponse(c) /\ Status(c) = TooManyRequests)
       => /\ Finished(c)
          /\ call[c].result = Err([kind |-> "RateLimited"])
          /\ ~call[c].body_read /\ call[c].content = Nil
          /\ call[c].attempts = << >>
    /\ (/\ call[c].pc # "idle" /\ call[c].result # Nil /\ ~call[c].result.ok
        /\ call[c].result.err.kind = "RateLimited")
       => GotResponse(c) /\ Status(c) = TooManyRequests

\* 429 with a body that is a valid T for the call
C4_Witness ==
  \E c \in DOMAIN call :
    /\ Finished(c) /\ GotResponse(c) /\ Status(c) = TooManyRequests
    /\ call[c].op = "get_stat_leaderboard" /\ Body(c) = PlayersBody
    /\ from_str(call[c].T, Body(c)).ok
    /\ call[c].result = Err([kind |-> "RateLimited"])

\* endpoint calls started by the callers of S, in all
RECURSIVE SumCalls(_)
SumCalls(S) ==
  IF S = {} THEN 0
  ELSE LET c == CHOOSE x \in S : TRUE IN ncalls[c] + SumCalls(S \ {c})

\* C5: a call whose send failed ends at once with Error::ReqwestError
\* wrapping the cause, with no status check and no body read or decode; and
\* every call has sent exactly one request, the wire holding as many
\* requests as calls were made.
C5_TransportFailureIsFinal ==
  /\ Len(wire) = SumCalls(DOMAIN call)
  /\ \A c \in DOMAIN call :
       /\ call[c].pc # "idle" => call[c].sends = 1
       /\ (call[c].pc # "idle" /\ call[c].sent # Nil /\ ~call[c].sent.ok)
          => /\ Finished(c)
             /\ call[c].result =
                  Err([kind |-> "ReqwestError", inner |-> call[c].sent.err])
             /\ ~call[c].status_checked /\ ~call[c].body_read
             /\ call[c].attempts = << >>

C5_Witness ==
  \E c \in DOMAIN call :
    /\ call[c].pc = "returned" /\ call[c].sent = Err("timeout")
    /\ call[c].got = Err([kind |-> "ReqwestError", inner |-> "timeout"])
    /\ call[c].sends = 1

\* C6: no call ends in a panic, and every call that has ended holds one
\* outcome: a decoded T or one error of the four kinds.
C6_NoCallPanics ==
  \A c \in DOMAIN call :
    /\ call[c].pc # "panicked"
    /\ Finished(c) =>
         \/ call[c].result.ok
         \/ call[c].result.err.kind \in
              {"RateLimited", "ResponseCode", "ReqwestError", "SerdeJson"}

\* a byte string that may stand as an HTTP header value: no control
\* character other than the horizontal tab
HeaderValueLegal(k) ==
  \A i \in 1..Len(k) : k[i] = 9 \/ (k[i] >= 32 /\ k[i] # 127)

\* C7: new never returns a client for a credential that has a character
\* illegal in a header value.
C7_IllegalCredentialRejected ==
  (rl # Nil /\ rl.ok) => HeaderValueLegal(rl.val.api_key)

\* C8: every request sent carries the credential given to new as
\* Authorization, Accept: application/json and the User-Agent, and carries
\* them as the default headers the client computed at construction, the
\* request builder adding none.
C8_HeadersFromConstructionOnly ==
  /\ \A i \in 1..Len(wire) :
       /\ wire[i] = [Authorization |-> rl.val.api_key,
                             Accept |-> "application/json",
                             UserAgent |-> "rlstats (v 0.1.0)"]
       /\ wire[i] = rl.val.client.default_headers
  /\ \A c \in DOMAIN call :
       call[c].pc # "idle" => call[c].request.builder_headers = << >>

\* the operations table
TableVerb(op) == IF op = "batch_players" THEN "POST" ELSE "GET"
TablePath(op, args) ==
  CASE op = "get_platforms" -> "/data/platforms"
    [] op = "get_seasons" -> "/data/seasons"
    [] op = "get_playlists" -> "/data/playlists"
    [] op = "get_tiers" -> "/data/tiers"
    [] op = "get_player" ->
         "/player?unique_id=" \o args[1] \o "&platform_id=" \o ToString(args[2])
    [] op = "search_players" ->
         "/search/players?display_name=" \o args[1] \o "&page=" \o ToString(args[2])
    [] op = "batch_players" -> "/player/batch"
    [] op = "get_ranked_leaderboard" ->
         "/leaderboard/ranked?playlist_id=" \o ToString(args[1])
    [] op = "get_stat_leaderboard" -> "/leaderboard/stat?type=" \o args[1]
\* what a server reading the request body as JSON gets back
StubDecode(json) ==
  [i \in 1..Len(json.items) |->
     [id |-> MemberValue(json.items[i].members, "uniqueId").s,
      platform_id |-> MemberValue(json.items[i].members, "platformId").n]]

\* C9: every endpoint call sends the verb and the path of the operations
\* table at the base URL; a read sends no payload of the caller's,
\* batch_players alone POSTs, its body the given players, all of them in
\* order; and what the caller gets is the dispatcher's result.
C9_EndpointsFollowTable ==
  \A c \in DOMAIN call :
    call[c].pc # "idle" =>
      /\ call[c].request.method = TableVerb(call[c].op)
      /\ call[c].request.url =
           "https://api.rocketleaguestats.com/v1" \o TablePath(call[c].op, call[c].args)
      /\ (call[c].request.method = "POST") <=> (call[c].op = "batch_players")
      /\ call[c].op # "batch_players" => call[c].request.json = [tag |-> "null"]
      /\ call[c].op = "batch_players" =>
           /\ call[c].request.json.tag = "arr"
           /\ StubDecode(call[c].request.json) = call[c].args[1]
      /\ call[c].pc = "returned" => call[c].got = call[c].result

\* a batch of eleven players went out whole, and its result came back
C9_Witness ==
  \E c \in DOMAIN call :
    /\ call[c].pc = "returned" /\ call[c].op = "batch_players"
    /\ Len(call[c].args[1]) = 11 /\ Len(call[c].request.json.items) = 11
    /\ call[c].request.url = "https://api.rocketleaguestats.com/v1/player/batch"
    /\ call[c].got.ok /\ Len(call[c].got.val) = 2

\* the outcome of a call that runs alone, from its type and what the
\* network did to it
RunAlone(T, sent) ==
  IF ~sent.ok THEN [pc |-> "done", result |-> Err(ReqwestError(sent.err))]
  ELSE IF sent.val.status = TooManyRequests
  THEN [pc |-> "done", result |-> Err(RateLimited)]
  ELSE IF sent.val.body = IoError THEN [pc |-> "panicked", result |-> Nil]
  ELSE [pc |-> "done", result |-> Decode(T, sent.val.body)]

EndedCall(c) == call[c].pc \in {"done", "returned", "panicked"}
Outcome(c) ==
  [pc |-> IF call[c].pc = "returned" THEN "done" ELSE call[c].pc,
   result |-> call[c].result]

\* C10: under every interleaving the client stays as new built it, and the
\* outcome of every call is the one it has when run alone on the same
\* arguments and the same response.
C10_CallsDoNotInterfere ==
  /\ [][rl # Nil => rl' = rl]_vars
  /\ [](\A c \in DOMAIN call :
          EndedCall(c) => Outcome(c) = RunAlone(call[c].T, call[c].sent))

\* a call that ended with the outcome of its own response while another
\* call on the same client holds a different response, its body unread
C10_Witness ==
  \E c, d \in DOMAIN call :
    /\ c # d /\ Len(wire) >= 2 /\ rl.ok
    /\ call[d].pc = "reading" /\ Body(d) = NotFoundBody
    /\ Finished(c) /\ call[c].body_read /\ call[c].content = PlayerBody
    /\ call[c].op = "get_player" /\ call[c].result.ok
    /\ call[c].result.val.unique_id = "u1"

====
